---- MODULE Spec2Model ----
(***************************************************************************)
(* A model of src/src/index.ts: the Store class that turns declared        *)
(* actions into dispatches on an underlying reducer store.                 *)
(*                                                                         *)
(* One declared action (class-level metadata: options, call counter and    *)
(* cached key) is invoked up to MaxCalls times.  An invocation runs the    *)
(* synchronous part of the action closure (cache check, wrapped payload    *)
(* creator, Store.dispatch up to its first await) in one step; the         *)
(* settlement of the payload promise and the two continuations (of the     *)
(* wrapped payload creator and of Store.dispatch) are separate steps that  *)
(* interleave with other invocations and with waitForAction.               *)
(*                                                                         *)
(* Spec, SpecCache and SpecShared are the action-dispatch engine (without  *)
(* a cache option, with one, and on two store instances of one class);     *)
(* SpecNested and SpecNotify are the nested-store composition (state       *)
(* projection, and state-change subscribers); SpecReducer is the reducer   *)
(* chain of a root store and its child stores.                             *)
(***************************************************************************)
EXTENDS Integers, Sequences, FiniteSets, TLC

(* ------------------------------ bounds -------------------------------- *)

\* invocations that pass the cache check (and run the payload function) in one behaviour
MaxCalls == 2

\* invocations that the cache check suppresses in one behaviour
MaxSuppressed == 1

\* longest argument list an invocation passes
MaxArgs == 2

\* the values an argument can take (compared by identity)
ArgVals == {1, 2}

\* the store instances of the class
Instances == {"S1", "S2"}

(* ------------------------------ values -------------------------------- *)

\* what a payload creator can return or a payload promise resolve to:
\* JavaScript null, the falsy number 0 and the truthy number 1
Values == {"null", "0", "1"}

\* JavaScript truthiness of the modelled values
Truthy(v) == v \notin {"undefined", "null", "0"}

\* the argument lists an invocation can pass
ArgLists == UNION {[1..n -> ArgVals] : n \in 0..MaxArgs}

\* a promise, or what an invocation hands back to its caller
Pending == [k |-> "pending"]

Ok(v) == [k |-> "ok", v |-> v]

Err(e) == [k |-> "err", v |-> e]

NoResult == [k |-> "none"]

\* the error the payload of invocation i throws or rejects with
PayloadError(i) == "payloadError" \o ToString(i)

\* the error thrown by assert() when an async payload creator returns no promise
AssertError == "assertError"

\* the error the underlying store throws from dispatch()
DispatchError == "dispatchError"

\* the dispatched types: the action's base type and its lifecycle variants
LifecycleTypes == {"START", "SUCCESS", "ERROR"}

Types == LifecycleTypes \cup {"BASE"}

\* what the payload function of one invocation does
PayloadBehaviours ==
    {[b |-> "throw"], [b |-> "promise"]} \cup {[b |-> "value", v |-> v] : v \in Values}

\* the declarations of the action without a cache option: @action(handler, opts);
\* the latest option is read by the async wrapper only
Declarations ==
    {d \in [isAsync : BOOLEAN, latest : BOOLEAN, cache : {"none"}] :
        d.latest => d.isAsync}

\* the declarations of the action with a cache option
CachedDeclarations == [isAsync : BOOLEAN, latest : {FALSE}, cache : {"true"}]

\* the declarations of the action with a cache function
KeyedDeclarations == [isAsync : BOOLEAN, latest : {FALSE}, cache : {"fn"}]

\* the argument lists passed to an action with a cache function: one argument,
\* the falsy 0 or the truthy 1
KeyedArgLists == {<<0>>, <<1>>}

\* the underlying stores: the types on which their dispatch() throws; an async
\* declaration dispatches lifecycle types only, a sync one the base type only
ThrowSets(isAsync) ==
    IF isAsync
    THEN {{}, {"START"}, {"SUCCESS"}, {"ERROR"}, {"SUCCESS", "ERROR"}}
    ELSE {{}, {"BASE"}}

VARIABLES
    opts,             \* the declaration: meta.isAsync, meta.opts.latest, meta.opts.cache
    throwsOn,         \* the underlying store: the types its dispatch() throws on
    instances,        \* the store instances of the class that were constructed
    callCount,        \* meta.callCount of each metadata object
    cachedArguments,  \* meta.cachedArguments of each metadata object
    lastArgs,         \* the argument list of the most recent invocation, if any
    actionState,      \* action.state of each instance's action
    actionDeferred,   \* action.deferred of each instance's action: 0 is null
    deferreds,        \* the Deferred objects created so far, by the invocation creating them
    calls,            \* the invocations so far
    lastLifecycle,    \* the lifecycle of the most recent lifecycle-suffixed dispatch
                      \* handed to the underlying store through each instance's action
    rootState,        \* the `state` field of the root (parent) store
    ownState,         \* the `state` field of each child store not yet attached
    attached,         \* the projections installed on each child by addInnerStore
    lastWrite,        \* the most recent write of a child's state, if any
    innerStores,      \* the innerStores list of each store, in registration order
    subscriptions,    \* how many functions each store's subscriptions list holds
    subscriptionsEnabled,  \* the subscriptionsEnabled flag of each store
    notified,         \* the subscriber calls made by the most recent operation
    lastSet,          \* the root.setState just made, if it was the most recent operation
    storeName,        \* the _name of each store
    declared,         \* the action names with a handler in each store's class metadata
    initialState,     \* the initialState of each store
    reducerState,     \* the state the underlying store keeps by folding the root's reducer
    lastDispatch      \* the most recent dispatch of a declared action to the underlying store, if any

\* the state of the action-dispatch engine
engineVars ==
    <<opts, throwsOn, instances, callCount, cachedArguments, lastArgs,
      actionState, actionDeferred, deferreds, calls, lastLifecycle>>

\* the state of the nested-store composition
nestedVars ==
    <<rootState, ownState, attached, lastWrite, innerStores, subscriptions,
      subscriptionsEnabled, notified, lastSet>>

\* the state of the reducer chain
reducerVars == <<storeName, declared, initialState, reducerState, lastDispatch>>

vars == <<engineVars, nestedVars, reducerVars>>

(* ------------------------- utils/deferred ----------------------------- *)

\* new Deferred(previous): a pending completion; previous is left as it is
NewDeferred(previous) == [status |-> "pending", subscribedTo |-> FALSE, err |-> "none"]

\* deferred.resolve(): settles once
resolve(d) == IF d.status = "pending" THEN [d EXCEPT !.status = "resolved"] ELSE d

\* deferred.reject(error): settles once
reject(d, e) ==
    IF d.status = "pending" THEN [d EXCEPT !.status = "rejected", !.err = e] ELSE d

(* --------------------------- pure helpers ----------------------------- *)

\* the metadata getter with one metadata object per store instance
MetaOf_PerInstance(s) == s

\* the metadata getter (lines 192-198): this.constructor.metadata, one object
\* for the class, whichever instance reads it
MetaOf(s) == "class"

\* the objects that can hold an action's metadata
MetaKeys == {"class"} \cup Instances

\* meta.cachedArguments before the first cached invocation
NoKey == [kind |-> "undefined"]

ArrayKey(args) == [kind |-> "array", elems |-> args]

\* the comparison of the stored key without its element-wise loop
CheckArrayKey_LengthOnly(args, cached) ==
    IF Len(cached.elems) = 0 /\ Len(args) = 0
    THEN [run |-> TRUE, cached |-> cached]
    ELSE IF Len(cached.elems) # Len(args)
    THEN [run |-> TRUE, cached |-> ArrayKey(args)]
    ELSE [run |-> FALSE, cached |-> cached]

\* checkCachedArguments with cache: true, on an array-shaped stored key
CheckArrayKey(args, cached) ==
    IF Len(cached.elems) = 0 /\ Len(args) = 0
    THEN [run |-> TRUE, cached |-> cached]
    ELSE IF Len(cached.elems) # Len(args)
    THEN [run |-> TRUE, cached |-> ArrayKey(args)]
    ELSE IF \E j \in 1..Len(args) : args[j] # cached.elems[j]
    THEN [run |-> TRUE, cached |-> ArrayKey(args)]
    ELSE [run |-> FALSE, cached |-> cached]

\* a value handed over as it is
Value(v) == [kind |-> "value", v |-> v]

\* the cache function of the declarations that have one: args => args[0],
\* which is undefined for an empty argument list
CacheFn(args) == IF Len(args) > 0 THEN Value(args[1]) ELSE NoKey

\* the key of an invocation (line 104)
CacheKey(args, cache) == IF cache = "true" THEN ArrayKey(args) ELSE CacheFn(args)

\* JavaScript truthiness of a stored key: an array is truthy, undefined and 0 are not
TruthyKey(key) == key.kind = "array" \/ (key.kind = "value" /\ key.v # 0)

\* checkCachedArguments that does not record the key of the first invocation
checkCachedArguments_KeyNotRecorded(args, cache, cached) ==
    IF cache = "none" \/ ~TruthyKey(cached)
    THEN [run |-> TRUE, cached |-> cached]
    ELSE IF cached.kind # "array"
    THEN IF CacheKey(args, cache) # cached
         THEN [run |-> TRUE, cached |-> CacheKey(args, cache)]
         ELSE [run |-> FALSE, cached |-> cached]
    ELSE CheckArrayKey(args, cached)

\* checkCachedArguments(args, meta): whether the invocation runs, and the stored key after it
checkCachedArguments(args, cache, cached) ==
    IF cache = "none"
    THEN [run |-> TRUE, cached |-> cached]
    ELSE IF ~TruthyKey(cached)
    THEN [run |-> TRUE, cached |-> CacheKey(args, cache)]
    ELSE IF cached.kind # "array"
    THEN IF CacheKey(args, cache) # cached
         THEN [run |-> TRUE, cached |-> CacheKey(args, cache)]
         ELSE [run |-> FALSE, cached |-> cached]
    ELSE CheckArrayKey(args, cached)

\* args[index] of a JavaScript array (index from 0): undefined past its end
ArgAt(args, index) ==
    IF index + 1 \in DOMAIN args THEN Value(args[index + 1]) ELSE NoKey

\* the payload of the START dispatch (line 242):
\* actionCreatorArgs.length <= 1 ? actionCreatorArgs[1] : actionCreatorArgs
StartPayload(args) == IF Len(args) <= 1 THEN ArgAt(args, 1) ELSE ArrayKey(args)

\* no START dispatched
NoPayload == [kind |-> "none"]

\* the latest policy without the comparison of the call numbers
IsStale_Never(latest, callNumber, count) == FALSE

\* the latest policy of the wrapped async payload creator
IsStale(latest, callNumber, count) == latest /\ callNumber # count

\* `await payload` without `|| null`
OrNull_Dropped(v) == v

\* `await payload || null`
OrNull(v) == IF Truthy(v) THEN v ELSE "null"

\* the dispatch after the await without its guard
DispatchesData_Always(data) == TRUE

\* the guard of the SUCCESS / base dispatch after the await
DispatchesData(data) == data # "null"

\* the guard of deferred.reject in the catch blocks
RejectsDeferred(d) == d.subscribedTo

\* the underlying store's dispatch() throws on this type
StoreThrows(type) == type \in throwsOn

\* the elements of a sequence
Range(seq) == {seq[k] : k \in 1..Len(seq)}

\* setActionStateAndDispatch without its assignment to action.state
SetActionState_Skipped(old, state) == old

\* action.state = state (line 201)
SetActionState(old, state) == state

\* the lifecycle of the last lifecycle-suffixed dispatch in a log, or else last
RECURSIVE LastLifecycleIn(_, _)
LastLifecycleIn(log, last) ==
    IF log = <<>> THEN last
    ELSE LastLifecycleIn(Tail(log),
             IF Head(log) \in {"START", "SUCCESS", "ERROR"} THEN Head(log) ELSE last)

\* the types an invocation handed to the underlying store's dispatch(), in order
Dispatched(c) == SelectSeq(c.log, LAMBDA x : x \in Types)


(* --------------------------- nested stores ---------------------------- *)

\* most functions one store's subscriptions list holds
MaxSubs == 2

\* the child stores a root store can own
Children == {"A", "B"}

\* the root store and the stores that can be attached below it
Stores == {"root"} \cup Children

\* the keys of the root state's slices
Keys == {"a", "b"}

\* JavaScript values a state can hold: undefined, the numbers 0 and 1, and
\* objects with some of the keys, each holding a number
Undefined == [t |-> "undefined"]

Num(n) == [t |-> "number", n |-> n]

Obj(f) == [t |-> "object", f |-> f]

Scalars == {Num(0), Num(1)}

Objects == {Obj(f) : f \in UNION {[K -> Scalars] : K \in SUBSET Keys}}

\* the values a caller writes to a child's state
ChildValues == Scalars

\* the values a caller passes to the root's setState
RootValues == {Undefined} \cup Scalars \cup Objects

\* JavaScript truthiness of a state value
TruthyState(x) == x.t = "object" \/ (x.t = "number" /\ x.n # 0)

\* the projections given to addInnerStore: the identity (the default x => x),
\* or the slice under a key (read: s => s[k], write: v => ({[k]: v}))
Projections == {"id"} \cup Keys

\* selectLocalState(state) for a projection
ReadProjection(p, x) ==
    IF p = "id" THEN x
    ELSE IF x.t = "object" /\ p \in DOMAIN x.f THEN x.f[p]
    ELSE Undefined

\* selectGlobalState(state) for a projection
WriteProjection(p, v) ==
    IF p = "id" THEN v ELSE Obj([k \in {p} |-> v])

\* a child that addInnerStore has not been called on
Detached == [on |-> FALSE]

\* the setter installed by addInnerStore (lines 374-376): the parent's state
\* after this.state = store.selectGlobalState(state)
SetterResult(old, written) == written

\* the `state` of a store when the root's field holds r and the fields of the
\* stores not attached hold o: the field itself, or for an attached store the
\* getter installed by addInnerStore (lines 369-373) over its parent's state
RECURSIVE StateIn(_, _, _)
StateIn(r, o, st) ==
    IF st = "root" THEN r
    ELSE IF attached[st].on
    THEN LET ps == StateIn(r, o, attached[st].parent)
         IN  IF TruthyState(ps)
             THEN ReadProjection(attached[st].read, ps)
             ELSE Undefined
    ELSE o[st]

\* child.state
ChildState(c) == StateIn(rootState, ownState, c)

\* the fields after `st.state = v`: the field itself, or for an attached store
\* the setter installed by addInnerStore (lines 374-376) on its parent's state
RECURSIVE Assigned(_, _)
Assigned(st, v) ==
    IF st = "root" THEN [root |-> v, own |-> ownState]
    ELSE IF attached[st].on
    THEN Assigned(attached[st].parent,
             SetterResult(ChildState(attached[st].parent),
                          WriteProjection(attached[st].write, v)))
    ELSE [root |-> rootState, own |-> [ownState EXCEPT ![st] = v]]

\* the stores above st, nearest first
RECURSIVE Ancestors(_)
Ancestors(st) ==
    IF st = "root" \/ ~attached[st].on THEN {}
    ELSE {attached[st].parent} \cup Ancestors(attached[st].parent)

\* what notifySubscribers passes down to a child (lines 352-355)
ProjectedPrev(c, prevState) ==
    IF TruthyState(prevState)
    THEN ReadProjection(attached[c].read, prevState)
    ELSE Undefined

\* notifySubscribers(prevState) on store st (lines 348-359) once the fields
\* hold r and o: the calls sub(this.state, prevState) of its own subscribers,
\* then those of each inner store in registration order
RECURSIVE Notifications(_, _, _, _), NotifyInner(_, _, _, _)
Notifications(r, o, st, prevState) ==
    [k \in 1..subscriptions[st] |->
        [store |-> st, sub |-> k, state |-> StateIn(r, o, st), prev |-> prevState]]
    \o NotifyInner(r, o, innerStores[st], prevState)

NotifyInner(r, o, inner, prevState) ==
    IF inner = <<>> THEN <<>>
    ELSE Notifications(r, o, Head(inner), ProjectedPrev(Head(inner), prevState))
         \o NotifyInner(r, o, Tail(inner), prevState)

\* no root.setState made yet, or another operation made since
NoSet == [has |-> FALSE]

\* p.addInnerStore(child, selectLocalState, selectGlobalState): a store is
\* attached once, never below itself, and below another child with the
\* identity projections only
AddInnerStore(p, c, read, write) ==
    /\ ~attached[c].on
    /\ p # c
    /\ c \notin Ancestors(p)
    /\ p # "root" => (read = "id" /\ write = "id")
    /\ attached' = [attached EXCEPT ![c] =
           [on |-> TRUE, parent |-> p, read |-> read, write |-> write]]
    /\ innerStores' = [innerStores EXCEPT ![p] = Append(@, c)]
    /\ lastWrite' = [has |-> FALSE]
    /\ lastSet' = NoSet
    /\ notified' = <<>>
    /\ UNCHANGED <<rootState, ownState, subscriptions, subscriptionsEnabled>>
    /\ UNCHANGED engineVars
    /\ UNCHANGED reducerVars

\* child.state = v, directly ("assign") or inside child.setState(v) (lines
\* 176-181), which then notifies the child's subscribers when enabled
WriteChildState(c, v, via) ==
    LET after == Assigned(c, v)
    IN  /\ rootState' = after.root
        /\ ownState' = after.own
        /\ notified' =
               IF via = "setState" /\ subscriptionsEnabled[c]
               THEN Notifications(after.root, after.own, c, ChildState(c))
               ELSE <<>>
        /\ lastWrite' = [has |-> TRUE, child |-> c, v |-> v, via |-> via, before |-> rootState]
        /\ lastSet' = NoSet
        /\ UNCHANGED <<attached, innerStores, subscriptions, subscriptionsEnabled>>
        /\ UNCHANGED engineVars
        /\ UNCHANGED reducerVars
    /\ UNCHANGED reducerVars

\* root.setState(v) (lines 176-181)
SetState(v) ==
    /\ rootState' = v
    /\ notified' =
           IF subscriptionsEnabled["root"]
           THEN Notifications(v, ownState, "root", rootState)
           ELSE <<>>
    /\ lastWrite' = [has |-> FALSE]
    /\ lastSet' = [has |-> TRUE, state |-> v, prev |-> rootState,
                   enabled |-> subscriptionsEnabled["root"]]
    /\ UNCHANGED <<ownState, attached, innerStores, subscriptions, subscriptionsEnabled>>
    /\ UNCHANGED engineVars
    /\ UNCHANGED reducerVars

\* st.subscribe(fn) (lines 325-328)
Subscribe(st) ==
    /\ subscriptions[st] < MaxSubs
    /\ subscriptions' = [subscriptions EXCEPT ![st] = @ + 1]
    /\ notified' = <<>>
    /\ lastSet' = NoSet
    /\ UNCHANGED <<rootState, ownState, attached, lastWrite, innerStores,
                   subscriptionsEnabled>>
    /\ UNCHANGED engineVars
    /\ UNCHANGED reducerVars

\* the stores st.unsubscribe() clears: st and, recursively, its inner stores
RECURSIVE Subtree(_), SubtreeOfAll(_)
Subtree(st) == {st} \cup SubtreeOfAll(innerStores[st])

SubtreeOfAll(inner) ==
    IF inner = <<>> THEN {} ELSE Subtree(Head(inner)) \cup SubtreeOfAll(Tail(inner))

\* st.unsubscribe(fn) with a subscribed fn (lines 330-339), or st.unsubscribe()
\* (lines 340-344)
Unsubscribe(st, single) ==
    /\ single => subscriptions[st] > 0
    /\ subscriptions' =
           IF single
           THEN [subscriptions EXCEPT ![st] = @ - 1]
           ELSE [x \in Stores |-> IF x \in Subtree(st) THEN 0 ELSE subscriptions[x]]
    /\ notified' = <<>>
    /\ lastSet' = NoSet
    /\ UNCHANGED <<rootState, ownState, attached, lastWrite, innerStores,
                   subscriptionsEnabled>>
    /\ UNCHANGED engineVars
    /\ UNCHANGED reducerVars

\* st.disableSubscriptions() / st.enableSubscriptions() (lines 312-318)
SetSubscriptionsEnabled(st, on) ==
    /\ subscriptionsEnabled' = [subscriptionsEnabled EXCEPT ![st] = on]
    /\ notified' = <<>>
    /\ lastSet' = NoSet
    /\ UNCHANGED <<rootState, ownState, attached, lastWrite, innerStores,
                   subscriptions>>
    /\ UNCHANGED engineVars
    /\ UNCHANGED reducerVars

\* after construction: no state set yet (the constructor keeps initialState
\* apart and leaves `state` unset), no child attached, no subscriber
ConstructedStores ==
    /\ rootState = Undefined
    /\ ownState = [c \in Children |-> Undefined]
    /\ attached = [c \in Children |-> Detached]
    /\ lastWrite = [has |-> FALSE]
    /\ innerStores = [st \in Stores |-> <<>>]
    /\ subscriptions = [st \in Stores |-> 0]
    /\ subscriptionsEnabled = [st \in Stores |-> TRUE]
    /\ notified = <<>>
    /\ lastSet = NoSet

(* --------------------------- reducer chain ---------------------------- *)

\* most handler applications the state of the underlying store counts
MaxHandled == 3

\* the names given to stores (the constructor's name option)
StoreNames == {"n1", "n2"}

\* the action names a store class declares handlers for
ActionNames == {"a", "b"}

\* the state of the underlying store: Null before any reducer ran, else the
\* number of handler applications it went through (each handler returns a
\* new state, the default handler returns its argument)
Null == -1

\* new ActionTypeManager(actionName, storeName).getType(): the namespaced
\* type, one per pair of a store name and an action name
ScopedType(name, actionName) == [store |-> name, action |-> actionName]

\* a type isReduxInternalAction recognises
InternalType == [store |-> "@@redux", action |-> "INIT"]

\* the reducer created by createReducer for store st (lines 295-306), on what
\* the chain folded so far: the state and the stores whose handler was applied
InitialReducer(st, acc, type) ==
    IF acc.state = Null THEN [acc EXCEPT !.state = initialState[st]]
    ELSE IF type = InternalType THEN acc
    ELSE IF type.store = storeName[st] /\ type.action \in declared[st]
    THEN [state |-> acc.state + 1, applied |-> Append(acc.applied, st)]
    ELSE acc

\* store.reducer (lines 276-282): the fold of reducersList, which holds the
\* store's own reducer and then the reducer of each inner store, in
\* registration order
RECURSIVE Reducer(_, _, _), ReduceInner(_, _, _)
Reducer(st, acc, type) ==
    ReduceInner(innerStores[st], InitialReducer(st, acc, type), type)

ReduceInner(inner, acc, type) ==
    IF inner = <<>> THEN acc
    ELSE ReduceInner(Tail(inner), Reducer(Head(inner), acc, type), type)

\* no dispatch of a declared action made yet, or an internal one made since
NoDispatch == [has |-> FALSE]

\* this.getStore().dispatch({type}) by declared action a of store x, a store
\* of the chain: the underlying store folds the root's reducer over its state
Dispatch(x, a) ==
    /\ x \in Subtree("root")
    /\ a \in declared[x]
    /\ reducerState < MaxHandled
    /\ LET res == Reducer("root", [state |-> reducerState, applied |-> <<>>],
                          ScopedType(storeName[x], a))
       IN  /\ reducerState' = res.state
           /\ lastDispatch' = [has |-> TRUE, store |-> x, action |-> a,
                               before |-> reducerState, applied |-> res.applied]
    /\ UNCHANGED <<storeName, declared, initialState>>
    /\ UNCHANGED engineVars
    /\ UNCHANGED nestedVars

\* the underlying store dispatches an internal action (its initialisation)
DispatchInternal ==
    /\ reducerState' =
           Reducer("root", [state |-> reducerState, applied |-> <<>>], InternalType).state
    /\ lastDispatch' = NoDispatch
    /\ UNCHANGED <<storeName, declared, initialState>>
    /\ UNCHANGED engineVars
    /\ UNCHANGED nestedVars

\* after construction of stores that declare no action handler
ConstructedReducers ==
    /\ storeName = [st \in Stores |-> "n1"]
    /\ declared = [st \in Stores |-> {}]
    /\ initialState = [st \in Stores |-> 0]
    /\ reducerState = Null
    /\ lastDispatch = NoDispatch

\* the handler declarations of a store class in a chain of reducers
HandlerSets == {{"a"}, {"b"}, {"a", "b"}}

\* after construction of stores of any names, handler declarations and
\* initial states (null or not)
ConstructedChain ==
    /\ storeName \in [Stores -> StoreNames]
    /\ storeName["root"] = "n1"
    /\ declared \in [Stores -> HandlerSets]
    /\ initialState \in [Stores -> {Null, 0}]
    /\ reducerState = Null
    /\ lastDispatch = NoDispatch

(* ------------------------------ Init ---------------------------------- *)

\* after construction (createActions, lines 136-161, and the decorator, line 440):
\* no invocation yet, callCount 0, no cached key, action.deferred null
Constructed ==
    /\ callCount = [m \in MetaKeys |-> 0]
    /\ cachedArguments = [m \in MetaKeys |-> NoKey]
    /\ lastArgs = [has |-> FALSE, args |-> <<>>]
    /\ actionState = [s \in Instances |-> "none"]
    /\ actionDeferred = [s \in Instances |-> 0]
    /\ deferreds = <<>>
    /\ calls = <<>>
    /\ lastLifecycle = [s \in Instances |-> "none"]

\* an action declared without a cache option, over any underlying store
Init ==
    /\ opts \in Declarations
    /\ throwsOn \in ThrowSets(opts.isAsync)
    /\ instances = {"S1"}
    /\ Constructed
    /\ ConstructedStores
    /\ ConstructedReducers

\* an action declared with cache: true or with a cache function, over an
\* underlying store that never throws
InitCache ==
    /\ opts \in CachedDeclarations \cup KeyedDeclarations
    /\ throwsOn = {}
    /\ instances = {"S1"}
    /\ Constructed
    /\ ConstructedStores
    /\ ConstructedReducers

\* the argument lists passed to an action with cache: true that is invoked
\* on two store instances: no argument or one
SharedArgLists == {args \in ArgLists : Len(args) <= 1}

\* the declarations of an action invoked on two store instances of its class
SharedDeclarations ==
    {[isAsync |-> TRUE, latest |-> TRUE, cache |-> "none"],
     [isAsync |-> TRUE, latest |-> FALSE, cache |-> "true"],
     [isAsync |-> FALSE, latest |-> FALSE, cache |-> "fn"]}

\* two store instances of one class, over an underlying store that never throws
InitShared ==
    /\ opts \in SharedDeclarations
    /\ throwsOn = {}
    /\ instances = Instances
    /\ Constructed
    /\ ConstructedStores
    /\ ConstructedReducers

\* a root store and its child stores, each with declared handlers
InitReducer ==
    /\ opts = [isAsync |-> FALSE, latest |-> FALSE, cache |-> "none"]
    /\ throwsOn = {}
    /\ instances = {"S1"}
    /\ Constructed
    /\ ConstructedStores
    /\ ConstructedChain

\* a root store and its child stores, no action invoked
InitNested ==
    /\ opts = [isAsync |-> FALSE, latest |-> FALSE, cache |-> "none"]
    /\ throwsOn = {}
    /\ instances = {"S1"}
    /\ Constructed
    /\ ConstructedStores
    /\ ConstructedReducers

(* ----------------------------- actions -------------------------------- *)

\* an invocation record: what one call of the action has done so far
\*   argc      the length of the argument list it was called with
\*   eqPrev    its argument list is element-wise identical to that of the
\*             invocation before it
\*   sameKey   (cache function) its key is identical to the key stored by the
\*             previous invocation that ran
\*   keyTruthy its key is truthy (an argument list always is)
\*   suppressed  the cache check returned false
\*   runs      how often the payload function ran
\*   promise   the promise the payload function returned (NoResult: none)
\*   wres      the promise returned by the wrapped payload creator
\*   dpc       Store.dispatch: "nodispatch" (never called), "await", "done"
\*   ret       what the caller of the action receives
\*   log       the dispatches to the underlying store, the calls of the error
\*             sink ("SINK") and the settlements of a deferred, in order
\*   sink      the errors handed to handleError
\*   start     the payload of its START dispatch
\*   lenAtSettle, lenAtResume  how many invocations had been issued when the
\*             payload promise settled, and when the wrapper resumed (0: not yet)
NewCall(s, args) ==
    [inst |-> s, argc |-> Len(args), eqPrev |-> (lastArgs.has /\ lastArgs.args = args),
     sameKey |-> (opts.cache = "fn" /\ calls # <<>>
                      /\ CacheKey(args, opts.cache) = cachedArguments[MetaOf(s)]),
     keyTruthy |-> (opts.cache = "fn" => TruthyKey(CacheKey(args, opts.cache))),
     suppressed |-> FALSE, runs |-> 0,
     promise |-> NoResult, callNumber |-> 0, lenAtSettle |-> 0,
     lenAtResume |-> 0, wres |-> NoResult, dpc |-> "nodispatch",
     ret |-> Pending, log |-> <<>>, sink |-> <<>>, start |-> NoPayload]

\* a catch block of the wrapped payload creator without its handleError call
HandleError_Skipped(c, e) == c

\* this.handleError(e, type) in the catch blocks of the wrapped payload
\* creator (lines 83-86, 93-96): the error sink is handed the error
HandleError(c, e) == [c EXCEPT !.sink = Append(@, e), !.log = Append(@, "SINK")]

\* what Store.dispatch awaits: the wrapper's promise (async declaration) or
\* the promise the payload function returned (sync declaration)
Awaited(c) == IF opts.isAsync THEN c.wres ELSE c.promise

\* lines 249-252, 226-229, 268-271: resolve the action's deferred, if any
ResolveCurrent(defs, cur) ==
    IF cur # 0 THEN [defs EXCEPT ![cur] = resolve(@)] ELSE defs

\* lines 256-258, 232-234: reject the action's deferred if it is subscribed to
RejectCurrent(defs, cur, e) ==
    IF cur # 0 /\ RejectsDeferred(defs[cur])
    THEN [defs EXCEPT ![cur] = reject(@, e)]
    ELSE defs

\* line 217: action.deferred = new Deferred(action.deferred)
CreateDeferred(defs, i, cur) == defs @@ (i :> NewDeferred(cur))

\* the action closure of createActions, suppressed by the cache check:
\* return Promise.resolve()
InvokeSuppressed(s, args) ==
    /\ calls' = Append(calls,
           [NewCall(s, args) EXCEPT
               !.suppressed = TRUE, !.ret = Ok("undefined")])
    /\ UNCHANGED <<callCount, actionState, actionDeferred, deferreds>>

\* an async declaration: the wrapper of lines 73-87 up to its await, then
\* Store.dispatch up to its await (lines 211-217, 241-245)
InvokeAsync(s, args, beh) ==
    LET i == Len(calls) + 1
        threw == beh.b # "promise"
        e == IF beh.b = "throw" THEN PayloadError(i) ELSE AssertError
        startThrows == StoreThrows("START")
        c0 == NewCall(s, args)
        c1 == IF threw
              THEN HandleError([c0 EXCEPT !.runs = 1, !.wres = Err(e)], e)
              ELSE [c0 EXCEPT !.runs = 1, !.promise = Pending, !.wres = Pending,
                              !.callNumber = callCount[MetaOf(s)] + 1]
        c2 == [c1 EXCEPT !.log = Append(@, "START"),
                         !.start = StartPayload(args),
                         !.dpc = IF startThrows THEN "done" ELSE "await",
                         !.ret = IF startThrows THEN Err(DispatchError) ELSE Pending]
    IN  /\ callCount' = IF threw THEN callCount
                         ELSE [callCount EXCEPT ![MetaOf(s)] = @ + 1]
        /\ deferreds' = CreateDeferred(deferreds, i, actionDeferred[s])
        /\ actionDeferred' = [actionDeferred EXCEPT ![s] = i]
        /\ actionState' = [actionState EXCEPT ![s] = SetActionState(@, "START")]
        /\ calls' = Append(calls, c2)

\* a sync declaration: the wrapper of lines 89-97, then Store.dispatch: to its
\* end (lines 264-273) on a plain value, to its await (line 222) on a promise
InvokeSync(s, args, beh) ==
    LET i == Len(calls) + 1
        c0 == [NewCall(s, args) EXCEPT !.runs = 1]
        created == CreateDeferred(deferreds, i, actionDeferred[s])
        baseThrows == StoreThrows("BASE")
    IN  /\ callCount' = [callCount EXCEPT ![MetaOf(s)] = @ + 1]
        /\ UNCHANGED actionState
        /\ CASE beh.b = "throw" ->
                /\ calls' = Append(calls,
                       HandleError([c0 EXCEPT !.ret = Err(PayloadError(i))],
                                   PayloadError(i)))
                /\ UNCHANGED <<actionDeferred, deferreds>>
             [] beh.b = "promise" ->
                /\ calls' = Append(calls,
                       [c0 EXCEPT !.promise = Pending, !.dpc = "await"])
                /\ deferreds' = created
                /\ actionDeferred' = [actionDeferred EXCEPT ![s] = i]
             [] beh.b = "value" ->
                IF baseThrows
                THEN /\ calls' = Append(calls,
                            [c0 EXCEPT !.log = <<"BASE">>, !.dpc = "done",
                                       !.ret = Err(DispatchError)])
                     /\ deferreds' = created
                     /\ actionDeferred' = [actionDeferred EXCEPT ![s] = i]
                ELSE /\ calls' = Append(calls,
                            [c0 EXCEPT !.log = <<"BASE", "RESOLVE">>, !.dpc = "done",
                                       !.ret = Ok(beh.v)])
                     /\ deferreds' = ResolveCurrent(created, i)
                     /\ actionDeferred' = [actionDeferred EXCEPT ![s] = 0]

\* the bounds on the invocations of the declared action
WithinBounds(run) ==
    LET suppressed == Cardinality({i \in 1..Len(calls) : calls[i].suppressed})
    IN  IF run
        THEN Len(calls) - suppressed < MaxCalls
        ELSE suppressed < MaxSuppressed

\* a caller invokes the action on instance s: the closure of lines 145-153
Invoke(s, args, beh) ==
    /\ LET cc == checkCachedArguments(args, opts.cache, cachedArguments[MetaOf(s)])
       IN  /\ WithinBounds(cc.run)
           /\ cachedArguments' = [cachedArguments EXCEPT ![MetaOf(s)] = cc.cached]
           /\ IF ~cc.run
              THEN InvokeSuppressed(s, args)
              ELSE IF opts.isAsync
              THEN InvokeAsync(s, args, beh)
              ELSE InvokeSync(s, args, beh)
    /\ lastArgs' = [has |-> TRUE, args |-> args]
    /\ lastLifecycle' = [lastLifecycle EXCEPT ![s] =
           LastLifecycleIn(calls'[Len(calls')].log, @)]
    /\ UNCHANGED <<opts, throwsOn, instances>>
    /\ UNCHANGED nestedVars
    /\ UNCHANGED reducerVars

\* the promise returned by the payload function of invocation i settles
Settle(i, outcome) ==
    /\ i \in 1..Len(calls)
    /\ calls[i].promise = Pending
    /\ calls' = [calls EXCEPT ![i].promise = outcome,
                              ![i].lenAtSettle = Len(calls)]
    /\ UNCHANGED <<opts, throwsOn, instances, callCount, cachedArguments, lastArgs,
                   actionState, actionDeferred, deferreds, lastLifecycle>>
    /\ UNCHANGED nestedVars
    /\ UNCHANGED reducerVars

\* the wrapped async payload creator resumes after `await promise` (lines 78-86)
WrapperResume(i) ==
    /\ i \in 1..Len(calls)
    /\ opts.isAsync
    /\ calls[i].wres = Pending
    /\ calls[i].promise.k \in {"ok", "err"}
    /\ LET c == calls[i]
           p == c.promise
       IN  calls' = [calls EXCEPT ![i] =
               IF p.k = "ok"
               THEN [c EXCEPT !.lenAtResume = Len(calls), !.wres =
                        IF IsStale(opts.latest, c.callNumber, callCount[MetaOf(c.inst)])
                        THEN Ok("null") ELSE Ok(p.v)]
               ELSE HandleError([c EXCEPT !.wres = Err(p.v)], p.v)]
    /\ UNCHANGED <<opts, throwsOn, instances, callCount, cachedArguments, lastArgs,
                   actionState, actionDeferred, deferreds, lastLifecycle>>
    /\ UNCHANGED nestedVars
    /\ UNCHANGED reducerVars

\* Store.dispatch of an async declaration resumes after `await payload`
\* (lines 245-261): res is the settled promise of the wrapped payload creator
AsyncContinuation(i, res) ==
    LET c == calls[i]
        s == c.inst
        cur == actionDeferred[s]
        data == IF res.k = "ok" THEN OrNull(res.v) ELSE "null"
        trySuccess == res.k = "ok" /\ DispatchesData(data)
        failed == res.k = "err" \/ (trySuccess /\ StoreThrows("SUCCESS"))
        error == IF res.k = "err" THEN res.v ELSE DispatchError
        errorThrows == failed /\ StoreThrows("ERROR")
        log1 == IF trySuccess THEN Append(c.log, "SUCCESS") ELSE c.log
        rejects == cur # 0 /\ RejectsDeferred(deferreds[cur])
                          /\ deferreds[cur].status = "pending"
        log2 == IF ~failed
                THEN IF cur # 0 THEN Append(log1, "RESOLVE") ELSE log1
                ELSE IF errorThrows
                THEN Append(log1, "ERROR")
                ELSE IF rejects
                THEN log1 \o <<"ERROR", "REJECT">>
                ELSE Append(log1, "ERROR")
    IN  /\ actionState' = [actionState EXCEPT ![s] =
               IF failed THEN SetActionState(@, "ERROR")
               ELSE IF trySuccess THEN SetActionState(@, "SUCCESS")
               ELSE @]
        /\ deferreds' =
               IF ~failed THEN ResolveCurrent(deferreds, cur)
               ELSE IF errorThrows THEN deferreds
               ELSE RejectCurrent(deferreds, cur, error)
        /\ actionDeferred' =
               IF errorThrows THEN actionDeferred
               ELSE [actionDeferred EXCEPT ![s] = 0]
        /\ calls' = [calls EXCEPT ![i] =
               [c EXCEPT !.dpc = "done", !.log = log2,
                         !.ret = IF ~failed THEN Ok(data)
                                 ELSE IF errorThrows THEN Err(DispatchError)
                                 ELSE Err(error)]]

\* Store.dispatch of a sync declaration whose payload is a promise resumes
\* after `await payload` (lines 222-237)
SyncContinuation(i, res) ==
    LET c == calls[i]
        s == c.inst
        cur == actionDeferred[s]
        data == IF res.k = "ok" THEN OrNull(res.v) ELSE "null"
        tryBase == res.k = "ok" /\ DispatchesData(data)
        failed == res.k = "err" \/ (tryBase /\ StoreThrows("BASE"))
        error == IF res.k = "err" THEN res.v ELSE DispatchError
        log1 == IF tryBase THEN Append(c.log, "BASE") ELSE c.log
        rejects == cur # 0 /\ RejectsDeferred(deferreds[cur])
                          /\ deferreds[cur].status = "pending"
        log2 == IF ~failed
                THEN IF cur # 0 THEN Append(log1, "RESOLVE") ELSE log1
                ELSE IF rejects THEN Append(log1, "REJECT") ELSE log1
    IN  /\ UNCHANGED actionState
        /\ deferreds' =
               IF ~failed THEN ResolveCurrent(deferreds, cur)
               ELSE RejectCurrent(deferreds, cur, error)
        /\ actionDeferred' = [actionDeferred EXCEPT ![s] = 0]
        /\ calls' = [calls EXCEPT ![i] =
               [c EXCEPT !.dpc = "done", !.log = log2,
                         !.ret = IF ~failed THEN Ok(data) ELSE Err(error)]]

\* Store.dispatch of invocation i resumes once what it awaits has settled
DispatchResume(i) ==
    /\ i \in 1..Len(calls)
    /\ calls[i].dpc = "await"
    /\ Awaited(calls[i]).k \in {"ok", "err"}
    /\ IF opts.isAsync
       THEN AsyncContinuation(i, Awaited(calls[i]))
       ELSE SyncContinuation(i, Awaited(calls[i]))
    /\ lastLifecycle' = [lastLifecycle EXCEPT ![calls[i].inst] =
           LastLifecycleIn(SubSeq(calls'[i].log, Len(calls[i].log) + 1,
                                  Len(calls'[i].log)), @)]
    /\ UNCHANGED <<opts, throwsOn, instances, callCount, cachedArguments, lastArgs>>
    /\ UNCHANGED nestedVars
    /\ UNCHANGED reducerVars

\* waitForAction(action) on the action of instance s (lines 512-518): returns
\* at once when action.deferred is null, else subscribes to the deferred
WaitForAction(s) ==
    /\ deferreds' =
           IF actionDeferred[s] = 0 THEN deferreds
           ELSE [deferreds EXCEPT ![actionDeferred[s]].subscribedTo = TRUE]
    /\ UNCHANGED <<opts, throwsOn, instances, callCount, cachedArguments, lastArgs,
                   actionState, actionDeferred, calls, lastLifecycle>>
    /\ UNCHANGED nestedVars
    /\ UNCHANGED reducerVars

\* the outcomes of a payload promise
Outcomes(i) == {Ok(v) : v \in Values} \cup {Err(PayloadError(i))}

\* the argument lists the callers pass: the arguments of an action declared
\* without a cache option are not read by the modelled code
InvocationArgs ==
    IF opts.cache = "none" THEN {<<>>}
    ELSE IF opts.cache = "fn" THEN KeyedArgLists
    ELSE IF instances = Instances THEN SharedArgLists
    ELSE ArgLists

Next ==
    \/ \E s \in instances, args \in InvocationArgs, beh \in PayloadBehaviours :
           Invoke(s, args, beh)
    \/ \E i \in 1..Len(calls) : \E outcome \in Outcomes(i) : Settle(i, outcome)
    \/ \E i \in 1..Len(calls) : WrapperResume(i)
    \/ \E i \in 1..Len(calls) : DispatchResume(i)
    \/ \E s \in instances : WaitForAction(s)

NextNested ==
    \/ \E c \in Children, read \in Projections, write \in Projections :
           AddInnerStore("root", c, read, write)
    \/ \E c \in Children, v \in ChildValues, via \in {"assign", "setState"} :
           WriteChildState(c, v, via)
    \/ \E v \in RootValues : SetState(v)

\* the projections a child is attached with when subscribers are observed
LensPairs == {<<p, p>> : p \in {"id", "a"}}

\* the states child.setState is given when subscribers are observed
NotifyChildValues == {Num(1)}

\* the states root.setState is given when subscribers are observed
NotifyValues == {Num(0), Num(1), Obj([k \in Keys |-> Num(1)])}

NextNotify ==
    \/ \E p \in Stores, c \in Children, l \in LensPairs : AddInnerStore(p, c, l[1], l[2])
    \/ \E c \in Children, v \in NotifyChildValues : WriteChildState(c, v, "setState")
    \/ \E v \in NotifyValues : SetState(v)
    \/ \E st \in Stores : Subscribe(st)
    \/ \E st \in Stores, single \in BOOLEAN : Unsubscribe(st, single)
    \/ \E st \in Stores, on \in BOOLEAN : SetSubscriptionsEnabled(st, on)

NextReducer ==
    \/ \E p \in Stores, c \in Children : AddInnerStore(p, c, "id", "id")
    \/ \E x \in Stores, a \in ActionNames : Dispatch(x, a)
    \/ DispatchInternal

\* the action-dispatch engine: an action declared without a cache option
Spec == Init /\ [][Next]_vars

\* the action-dispatch engine: an action declared with a cache option
SpecCache == InitCache /\ [][Next]_vars

\* the action-dispatch engine: an action invoked on two instances of its class
SpecShared == InitShared /\ [][Next]_vars

\* the nested-store composition: a root store and its child stores
SpecNested == InitNested /\ [][NextNested]_vars

\* the nested-store composition with state-change subscribers
SpecNotify == InitNested /\ [][NextNotify]_vars

\* the reducer chain of a root store and its child stores
SpecReducer == InitReducer /\ [][NextReducer]_vars

(* ------------------------------ claims -------------------------------- *)

\* the invocations made so far
Calls == 1..Len(calls)

\* invocation i is in flight: Store.dispatch is suspended at its await
InFlight(i) == calls[i].dpc = "await"

\* Store.dispatch of invocation i has returned or thrown
Done(i) == calls[i].dpc = "done"

\* among the first n invocations, one newer than invocation i reached the
\* await of the wrapped payload creator (its payload function returned a promise)
SupersededBy(i, n) == \E j \in (i + 1)..n : calls[j].promise # NoResult

\* none of the dispatches made for the invocation threw
NoDispatchThrew(c) == \A k \in 1..Len(Dispatched(c)) : ~StoreThrows(Dispatched(c)[k])

\* START is the first dispatch of the invocation and is dispatched once
StartsFirst(c) ==
    /\ Dispatched(c) # <<>>
    /\ Dispatched(c)[1] = "START"
    /\ \A k \in 2..Len(Dispatched(c)) : Dispatched(c)[k] # "START"

\* C1, as stated: every invocation of an async action whose payload resolved
\* has dispatched exactly [START, SUCCESS], every one whose payload failed
\* exactly [START, ERROR] (over an underlying store whose dispatch never throws)
C1_AsStated ==
    (opts.isAsync /\ throwsOn = {}) =>
        \A i \in Calls :
            Done(i) =>
                /\ calls[i].promise.k = "ok" =>
                       Dispatched(calls[i]) = <<"START", "SUCCESS">>
                /\ calls[i].wres.k = "err" =>
                       Dispatched(calls[i]) = <<"START", "ERROR">>

\* C1, amended: START is always the first dispatch of an invocation of an
\* async action, and when no dispatch throws the lifecycle types dispatched
\* for it are exactly [START, SUCCESS] when its payload resolves to a truthy
\* value and it is not suppressed as stale by the latest option, exactly
\* [START] when its payload resolves to a falsy value or it is stale, and
\* exactly [START, ERROR] when its payload fails
C1_LifecycleSequence ==
    opts.isAsync =>
        \A i \in Calls :
            LET c == calls[i]
                stale == opts.latest /\ SupersededBy(i, c.lenAtResume)
            IN  /\ StartsFirst(c)
                /\ (Done(i) /\ NoDispatchThrew(c)) =>
                       /\ c.promise.k = "ok" =>
                              Dispatched(c) =
                                  IF Truthy(c.promise.v) /\ ~stale
                                  THEN <<"START", "SUCCESS">>
                                  ELSE <<"START">>
                       /\ c.wres.k = "err" => Dispatched(c) = <<"START", "ERROR">>

\* C1 witness: two overlapping invocations of an async action, the first
\* resolved and the second failed, each with its own START
C1_Witness ==
    /\ opts.isAsync
    /\ Len(calls) = 2
    /\ Done(1) /\ Done(2)
    /\ calls[1].promise.k = "ok" /\ calls[2].promise.k = "err"
    /\ calls[1].lenAtSettle = 2
    /\ Dispatched(calls[1]) = <<"START", "SUCCESS">>
    /\ Dispatched(calls[2]) = <<"START", "ERROR">>

\* C2, as stated: with latest: true an invocation dispatches SUCCESS and
\* returns its resolved value only if no newer invocation of the action was
\* issued before its payload resolved
C2_AsStated ==
    opts.latest =>
        \A i \in Calls :
            ("SUCCESS" \in Range(Dispatched(calls[i]))
                \/ (calls[i].ret.k = "ok" /\ calls[i].ret.v # "null"))
            => calls[i].lenAtSettle = i

\* C2, amended: with latest: true an invocation dispatches SUCCESS and returns
\* its resolved value only if no newer invocation whose payload function
\* returned a promise was issued before its payload resolved; an invocation
\* superseded by such a newer one when its wrapper resumes dispatches no
\* SUCCESS and returns null (when no dispatch throws), and one that is not superseded and resolves to a
\* truthy value dispatches SUCCESS and returns that value (when no dispatch throws)
C2_LatestWins ==
    opts.latest =>
        \A i \in Calls :
            LET c == calls[i]
            IN  /\ ("SUCCESS" \in Range(Dispatched(c)) \/ (c.ret.k = "ok" /\ c.ret.v # "null"))
                       => ~SupersededBy(i, c.lenAtSettle)
                /\ (Done(i) /\ c.promise.k = "ok" /\ SupersededBy(i, c.lenAtResume))
                       => /\ "SUCCESS" \notin Range(Dispatched(c))
                          /\ NoDispatchThrew(c) => c.ret = Ok("null")
                /\ (Done(i) /\ c.promise.k = "ok" /\ ~SupersededBy(i, c.lenAtResume)
                        /\ Truthy(c.promise.v) /\ NoDispatchThrew(c))
                       => /\ Dispatched(c) = <<"START", "SUCCESS">>
                          /\ c.ret = Ok(c.promise.v)

\* C2 witness: A then B with latest: true, B resolved and completed before A's
\* payload resolved; A returned null without SUCCESS, B dispatched SUCCESS
C2_Witness ==
    /\ opts.latest
    /\ Len(calls) = 2
    /\ Done(1) /\ Done(2)
    /\ calls[1].promise = Ok("1") /\ calls[2].promise = Ok("1")
    /\ calls[2].lenAtSettle = 2 /\ calls[1].lenAtSettle = 2
    /\ calls[1].ret = Ok("null") /\ Dispatched(calls[1]) = <<"START">>
    /\ calls[2].ret = Ok("1") /\ Dispatched(calls[2]) = <<"START", "SUCCESS">>

\* the newest invocation of instance s that created a deferred, 0 if none
NewestDeferred(s) ==
    LET ids == {i \in DOMAIN deferreds : calls[i].inst = s}
    IN  IF ids = {} THEN 0 ELSE CHOOSE i \in ids : \A j \in ids : j <= i

\* C3, as stated: while an invocation is in flight the deferred it created is
\* unsettled, and while the newest invocation is in flight the action's
\* deferred is the one it created: no other invocation's completion resolves,
\* rejects or clears it
C3_AsStated ==
    \A i \in Calls :
        InFlight(i) =>
            /\ deferreds[i].status = "pending"
            /\ NewestDeferred(calls[i].inst) = i => actionDeferred[calls[i].inst] = i

\* C4, as stated: once no invocation is in flight, every deferred a waiter
\* subscribed to has settled (over an underlying store whose dispatch never throws)
C4_AsStated ==
    (throwsOn = {} /\ \A i \in Calls : ~InFlight(i)) =>
        \A d \in DOMAIN deferreds :
            deferreds[d].subscribedTo => deferreds[d].status # "pending"

\* C5, as stated: when an invocation fails with error e, the deferred it
\* created is rejected with e if a waiter subscribed to it, and no deferred is
\* rejected without a subscriber (over an underlying store whose dispatch
\* never throws)
C5_AsStated ==
    throwsOn = {} =>
        /\ \A i \in Calls :
               (Done(i) /\ calls[i].ret.k = "err" /\ deferreds[i].subscribedTo) =>
                   /\ deferreds[i].status = "rejected"
                   /\ deferreds[i].err = calls[i].ret.v
        /\ \A d \in DOMAIN deferreds :
               deferreds[d].status = "rejected" => deferreds[d].subscribedTo

\* C6, as stated: whenever no invocation is in flight, action.deferred is null
C6_AsStated ==
    (\A i \in Calls : ~InFlight(i)) => \A s \in Instances : actionDeferred[s] = 0

\* a suppressed invocation: no payload run, nothing dispatched, an already
\* resolved empty result
SuppressedCall(c) ==
    /\ c.suppressed
    /\ c.runs = 0
    /\ c.log = <<>>
    /\ c.ret = Ok("undefined")

\* an invocation that ran normally: the payload function ran once and, unless
\* it threw, the dispatch sequence began (START for an async declaration, the
\* base type for a sync one that returned a plain value)
RanNormally(c) ==
    /\ ~c.suppressed
    /\ c.runs = 1
    /\ opts.isAsync => StartsFirst(c)
    /\ (~opts.isAsync /\ c.promise = NoResult /\ c.sink = <<>>) =>
           Dispatched(c) = <<"BASE">>

\* C7, as stated: with cache: true and any argument list, an invocation whose
\* argument list is element-wise identical to the previous invocation's is
\* suppressed, and one whose argument list differs runs normally
C7_AsStated ==
    opts.cache = "true" =>
        \A i \in Calls :
            IF calls[i].eqPrev THEN SuppressedCall(calls[i]) ELSE RanNormally(calls[i])

\* C7, amended: with cache: true and a non-empty argument list, an invocation
\* whose argument list is element-wise identical to the previous invocation's
\* runs no payload, dispatches nothing and returns an already resolved empty
\* result; an invocation whose argument list differs, or is empty, runs normally
C7_CacheSuppression ==
    opts.cache = "true" =>
        \A i \in Calls :
            IF calls[i].eqPrev /\ calls[i].argc > 0
            THEN SuppressedCall(calls[i])
            ELSE RanNormally(calls[i])

\* C7 witness: three invocations with one argument each: the second repeats
\* the first and is suppressed, the third differs in that element and runs
C7_Witness ==
    /\ opts.cache = "true"
    /\ Len(calls) = 3
    /\ \A i \in 1..3 : calls[i].argc = 1
    /\ calls[2].eqPrev /\ SuppressedCall(calls[2])
    /\ ~calls[3].eqPrev /\ RanNormally(calls[3])
    /\ calls[3].ret.k = "ok"

\* the payload function of a sync-declared invocation threw
SyncThrew(c) == c.sink # <<>>

\* C8, as stated: every invocation of a sync action without cache whose payload
\* function returned runs it once and makes exactly one dispatch, of the base type
C8_AsStated ==
    (~opts.isAsync /\ opts.cache = "none") =>
        \A i \in Calls :
            (~SyncThrew(calls[i]) /\ calls[i].ret.k # "pending") =>
                /\ calls[i].runs = 1
                /\ Dispatched(calls[i]) = <<"BASE">>

\* C8, amended: every invocation of a sync action without cache runs the
\* payload function once; it makes exactly one dispatch, of the base type, when
\* the payload function returns a plain value (whatever the value) or a promise
\* that resolves to a truthy value, and none when the payload function throws
\* or returns a promise that resolves to a falsy value or rejects
C8_SyncDispatch ==
    (~opts.isAsync /\ opts.cache = "none") =>
        \A i \in Calls :
            LET c == calls[i]
            IN  /\ c.runs = 1
                /\ Dispatched(c) =
                       IF SyncThrew(c) THEN <<>>
                       ELSE IF c.promise = NoResult THEN <<"BASE">>
                       ELSE IF Done(i) /\ c.promise.k = "ok" /\ Truthy(c.promise.v)
                       THEN <<"BASE">>
                       ELSE <<>>

\* C8 witness: a sync action returned null (one base dispatch), then returned
\* a promise that resolved to null (no dispatch)
C8_Witness ==
    /\ ~opts.isAsync /\ opts.cache = "none"
    /\ Len(calls) = 2
    /\ calls[1].ret = Ok("null") /\ calls[1].promise = NoResult
    /\ Dispatched(calls[1]) = <<"BASE">>
    /\ Done(2) /\ calls[2].promise = Ok("null")
    /\ calls[2].ret = Ok("null") /\ Dispatched(calls[2]) = <<>>

\* the projections of a child round-trip: read(write(v)) = v for every v
RoundTrip(c) ==
    \A v \in ChildValues :
        ReadProjection(attached[c].read, WriteProjection(attached[c].write, v)) = v

\* the keys the write projection of a child produces for value v
Produced(c, v) ==
    LET w == WriteProjection(attached[c].write, v)
    IN  IF w.t = "object" THEN DOMAIN w.f ELSE Keys

\* C9, as stated: after a write of an attached child's state, every slice of
\* the parent's state that the write projection does not produce is unchanged
C9_AsStated ==
    (lastWrite.has /\ attached[lastWrite.child].on /\ lastWrite.before.t = "object") =>
        \A k \in DOMAIN lastWrite.before.f \ Produced(lastWrite.child, lastWrite.v) :
            /\ rootState.t = "object"
            /\ k \in DOMAIN rootState.f
            /\ rootState.f[k] = lastWrite.before.f[k]

\* C10, as stated: after a write of v to the state of a child attached with
\* round-tripping projections, reading the child's state returns v and the
\* parent's state is the write-projected v
C10_AsStated ==
    (lastWrite.has /\ attached[lastWrite.child].on /\ RoundTrip(lastWrite.child)) =>
        /\ ChildState(lastWrite.child) = lastWrite.v
        /\ rootState = WriteProjection(attached[lastWrite.child].write, lastWrite.v)

\* the stores of the records in a sequence of subscriber calls
NotifiedStores(n) == {n[k].store : k \in 1..Len(n)}

\* the subscriber calls made for store st, in order
CallsOf(n, st) == SelectSeq(n, LAMBDA x : x.store = st)

\* every subscriber of the root and of each store below it was called once,
\* in subscription order, and no other subscriber was called
AllNotifiedOnce(n) ==
    /\ NotifiedStores(n) \subseteq Subtree("root")
    /\ \A st \in Subtree("root") :
           /\ Len(CallsOf(n, st)) = subscriptions[st]
           /\ \A k \in 1..subscriptions[st] : CallsOf(n, st)[k].sub = k

\* depth-first, parents first: the calls for a store precede those for the
\* stores below it, and the calls for a store and the stores below it are
\* not interleaved with those of any other store
DepthFirst(n) ==
    /\ \A i, j \in 1..Len(n) :
           n[i].store \in Ancestors(n[j].store) => i < j
    /\ \A st \in Stores : \A i, j, k \in 1..Len(n) :
           (i < j /\ j < k /\ n[i].store \in Subtree(st) /\ n[k].store \in Subtree(st))
               => n[j].store \in Subtree(st)

\* the previous state a store's subscribers are to receive when the root's
\* previous state was prev: the read projection of the previous state of its
\* parent, undefined when the parent had none
RECURSIVE PrevStateOf(_, _)
PrevStateOf(st, prev) ==
    IF st = "root" THEN prev
    ELSE LET pp == PrevStateOf(attached[st].parent, prev)
         IN  IF pp = Undefined THEN Undefined
             ELSE ReadProjection(attached[st].read, pp)

\* C11, as stated: on a root.setState with subscriptions enabled, the root's
\* subscribers are called with (newState, prevState) before any subscriber of
\* a store below it, the calls proceed depth-first with each store's
\* subscribers before those of its children, and each child's subscribers
\* receive its read projection of the previous state of its parent, undefined
\* when there was no previous state
C11_AsStated ==
    (lastSet.has /\ lastSet.enabled) =>
        /\ AllNotifiedOnce(notified)
        /\ DepthFirst(notified)
        /\ \A k \in 1..Len(notified) :
               /\ notified[k].store = "root" => notified[k].state = lastSet.state
               /\ notified[k].prev = PrevStateOf(notified[k].store, lastSet.prev)

\* the most recent invocation, made with the argument list lastArgs.args
LastCall == calls[Len(calls)]

\* C12, as stated: the START dispatch of an async action invoked with exactly
\* one argument a carries the payload a, and that of one invoked with two or
\* more arguments carries the full argument list
C12_AsStated ==
    (opts.isAsync /\ calls # <<>> /\ ~LastCall.suppressed) =>
        /\ LastCall.argc = 1 => LastCall.start = Value(lastArgs.args[1])
        /\ LastCall.argc >= 2 => LastCall.start = ArrayKey(lastArgs.args)

\* invocation i was suppressed as stale by the latest option
Stale(i) == opts.latest /\ SupersededBy(i, calls[i].lenAtResume)

\* C13, as stated: a non-stale invocation of an async action whose payload
\* resolved to v has dispatched SUCCESS, left the lifecycle state SUCCESS and
\* returned v if and only if v is not null, for every v including the falsy 0
\* (over an underlying store whose dispatch never throws)
C13_AsStated ==
    (opts.isAsync /\ throwsOn = {}) =>
        \A i \in Calls :
            (Done(i) /\ calls[i].promise.k = "ok" /\ ~Stale(i)) =>
                LET c == calls[i]
                    v == c.promise.v
                IN  /\ "SUCCESS" \in Range(Dispatched(c)) <=> v # "null"
                    /\ c.ret = Ok(v)
                    /\ Len(calls) = 1 =>
                           (actionState[c.inst] = "SUCCESS" <=> v # "null")

\* the error-path steps of an invocation, in order: the call of the error
\* sink, the ERROR dispatch, the rejection of the deferred
FailureSteps(c) == SelectSeq(c.log, LAMBDA x : x \in {"SINK", "ERROR", "REJECT"})

\* the payload of the invocation failed: its payload function threw, returned
\* no promise, or its promise rejected
PayloadFailed(c) == c.wres.k = "err"

\* C14, as stated: when the payload of an async action has failed and the
\* invocation is over, its error-path steps were, in this order, the ERROR
\* dispatch, the rejection of the deferred if subscribed, and one call of the
\* error sink, and the caller received the error (over an underlying store
\* whose dispatch never throws)
C14_AsStated ==
    (opts.isAsync /\ throwsOn = {}) =>
        \A i \in Calls :
            (PayloadFailed(calls[i]) /\ Done(i)) =>
                /\ FailureSteps(calls[i]) \in
                       {<<"ERROR", "SINK">>, <<"ERROR", "REJECT", "SINK">>}
                /\ calls[i].ret = Err(calls[i].wres.v)

\* C14, amended: when the payload of an async action fails with error e, the
\* error sink is invoked first, exactly once and with e, before the ERROR
\* dispatch; when the invocation is over and no dispatch threw, the steps
\* were, in this order, the call of the sink, the ERROR dispatch, the
\* rejection of the action's current deferred if there was one subscribed to,
\* and the caller received e; an invocation that is the only one rejects a
\* deferred exactly when its own was subscribed to
C14_FailureOrder ==
    opts.isAsync =>
        \A i \in Calls :
            LET c == calls[i]
            IN  PayloadFailed(c) =>
                    /\ c.sink = <<c.wres.v>>
                    /\ FailureSteps(c) # <<>> /\ FailureSteps(c)[1] = "SINK"
                    /\ (Done(i) /\ NoDispatchThrew(c)) =>
                           /\ FailureSteps(c) \in
                                  {<<"SINK", "ERROR">>, <<"SINK", "ERROR", "REJECT">>}
                           /\ c.ret = Err(c.wres.v)
                           /\ Len(calls) = 1 =>
                                  ("REJECT" \in Range(c.log) <=> deferreds[i].subscribedTo)

\* C14 witness: the payload promise of an async invocation rejected while a
\* waiter was subscribed: START, then the sink, the ERROR dispatch and the
\* rejection of the deferred, and the caller received the error
C14_Witness ==
    /\ opts.isAsync
    /\ Len(calls) = 1 /\ Done(1)
    /\ calls[1].promise = Err(PayloadError(1))
    /\ calls[1].log = <<"START", "SINK", "ERROR", "REJECT">>
    /\ calls[1].ret = Err(PayloadError(1))
    /\ deferreds[1].status = "rejected"

\* the payload function of the invocation threw, or (async declaration) its
\* payload failed in any way
PayloadThrew(c) ==
    IF opts.isAsync THEN PayloadFailed(c)
    ELSE c.dpc = "nodispatch" /\ c.ret.k = "err"

\* the error the payload of the invocation failed with
PayloadErrorOf(c) == IF opts.isAsync THEN c.wres.v ELSE c.ret.v

\* the caller of the invocation has its result
Returned(c) == c.ret.k # "pending"

\* C15, as stated: an invocation in which the payload function threw e, or in
\* which a dispatch to the underlying store threw e, has invoked the error
\* sink exactly once, with e, and its caller received e
C15_AsStated ==
    \A i \in Calls :
        LET c == calls[i]
        IN  /\ (Returned(c) /\ PayloadThrew(c) /\ NoDispatchThrew(c)) =>
                   /\ c.sink = <<PayloadErrorOf(c)>>
                   /\ c.ret = Err(PayloadErrorOf(c))
            /\ (Returned(c) /\ ~PayloadThrew(c) /\ ~NoDispatchThrew(c)) =>
                   /\ c.sink = <<DispatchError>>
                   /\ c.ret = Err(DispatchError)

\* C16, as stated: with a cache function producing non-array keys, an
\* invocation that follows an earlier one is suppressed if and only if its key
\* is identical to the key of the previous invocation that ran, whatever the
\* key (the falsy 0 included); an invocation that runs replaces the stored key
C16_AsStated ==
    opts.cache = "fn" =>
        /\ \A i \in Calls :
               i > 1 =>
                   IF calls[i].sameKey
                   THEN SuppressedCall(calls[i])
                   ELSE RanNormally(calls[i])
        /\ (calls # <<>> /\ ~LastCall.suppressed) =>
               cachedArguments[MetaOf(LastCall.inst)] = CacheKey(lastArgs.args, opts.cache)

\* C17, as stated: a dispatch made by declared action a of store X, one of
\* several stores composed in one reducer chain, is applied by exactly one
\* handler, that of X, and by no handler of another store instance (when the
\* underlying store holds a state)
C17_AsStated ==
    (lastDispatch.has /\ lastDispatch.before # Null) =>
        lastDispatch.applied = <<lastDispatch.store>>

\* the payload of invocation j had failed when invocation j + 1 was issued:
\* its payload function threw (or, async, returned no promise), or the promise
\* it returned rejected before any newer invocation
FailedBeforeNext(j) ==
    /\ ~calls[j].suppressed
    /\ \/ calls[j].promise = NoResult /\ calls[j].sink # <<>>
       \/ calls[j].promise.k = "err" /\ calls[j].lenAtSettle = j

\* C18, as stated: an invocation of a cached action that immediately follows
\* one with the same key whose payload had failed is suppressed: no payload
\* run, nothing dispatched, an already resolved empty result
C18_AsStated ==
    opts.cache # "none" =>
        \A i \in Calls :
            (i > 1 /\ calls[i].eqPrev /\ FailedBeforeNext(i - 1)) =>
                SuppressedCall(calls[i])

\* C18, amended: the key is recorded before the payload function runs and is
\* not rolled back on failure: an invocation that immediately follows one with
\* the same key whose payload had failed is suppressed when the key is a
\* non-empty argument list (cache: true) or a truthy key of a cache function,
\* and runs normally when the key is the empty argument list or a falsy key
C18_KeyKeptOnFailure ==
    opts.cache # "none" =>
        \A i \in Calls :
            (i > 1 /\ calls[i].eqPrev /\ FailedBeforeNext(i - 1)) =>
                IF calls[i].argc > 0 /\ calls[i].keyTruthy
                THEN SuppressedCall(calls[i])
                ELSE RanNormally(calls[i])

\* C18 witness: with cache: true, the payload promise of an invocation with
\* one argument rejected and the invocation ended in error; the next one, with
\* the same argument, was suppressed
C18_Witness ==
    /\ opts.cache = "true"
    /\ Len(calls) = 2
    /\ calls[1].argc = 1 /\ Done(1)
    /\ calls[1].promise.k = "err" /\ calls[1].lenAtSettle = 1
    /\ calls[1].lenAtResume = 0 /\ calls[1].ret.k = "err"
    /\ calls[2].eqPrev /\ SuppressedCall(calls[2])

\* among the first n invocations, one newer than invocation i was made on
\* another store instance
NewerOnOther(i, n) == \E j \in (i + 1)..n : calls[j].inst # calls[i].inst

\* among the first n invocations, one newer than invocation i was made on
\* another store instance and reached the await of the wrapped payload creator
SupersededByOther(i, n) ==
    \E j \in (i + 1)..n : calls[j].inst # calls[i].inst /\ calls[j].promise # NoResult

\* invocation i follows an invocation made on another store instance
FollowsOther(i) == i > 1 /\ calls[i].inst # calls[i - 1].inst

\* C19, as stated: an invocation with latest: true whose payload resolved
\* after an invocation was issued on another instance is stale (it dispatched
\* no SUCCESS and returned null), and an invocation whose arguments give the
\* key last recorded through another instance is suppressed
C19_AsStated ==
    /\ opts.latest =>
           \A i \in Calls :
               (Done(i) /\ calls[i].promise.k = "ok"
                    /\ NewerOnOther(i, calls[i].lenAtSettle)) =>
                   /\ "SUCCESS" \notin Range(Dispatched(calls[i]))
                   /\ calls[i].ret = Ok("null")
    /\ opts.cache # "none" =>
           \A i \in Calls :
               (FollowsOther(i) /\ calls[i].eqPrev) => SuppressedCall(calls[i])

\* C19, amended: the call counter and the cached key are shared by the store
\* instances of a class: an invocation with latest: true whose wrapper resumes
\* after an invocation on another instance reached its await (its payload
\* function returned a promise) is stale, dispatches no SUCCESS and returns
\* null; an invocation whose arguments are those of the previous invocation,
\* made on another instance, is suppressed when its key is a non-empty
\* argument list or a truthy key of a cache function, and runs normally when
\* its key is the empty argument list or falsy
C19_SharedMetadata ==
    /\ opts.latest =>
           \A i \in Calls :
               (Done(i) /\ calls[i].promise.k = "ok"
                    /\ SupersededByOther(i, calls[i].lenAtResume)) =>
                   /\ "SUCCESS" \notin Range(Dispatched(calls[i]))
                   /\ calls[i].ret = Ok("null")
    /\ opts.cache # "none" =>
           \A i \in Calls :
               (FollowsOther(i) /\ calls[i].eqPrev) =>
                   IF calls[i].argc > 0 /\ calls[i].keyTruthy
                   THEN SuppressedCall(calls[i])
                   ELSE RanNormally(calls[i])

\* C19 witness: with latest: true, an invocation on S2 was issued while one
\* on S1 was in flight; S1's payload resolved to a truthy value afterwards and
\* S1's invocation returned null without SUCCESS, S2's dispatched SUCCESS
C19_Witness ==
    /\ opts.latest
    /\ Len(calls) = 2
    /\ calls[1].inst = "S1" /\ calls[2].inst = "S2"
    /\ Done(1) /\ Done(2)
    /\ calls[1].promise = Ok("1") /\ calls[1].lenAtSettle = 2
    /\ calls[1].ret = Ok("null") /\ Dispatched(calls[1]) = <<"START">>
    /\ calls[2].ret = Ok("1") /\ Dispatched(calls[2]) = <<"START", "SUCCESS">>

\* a lifecycle-suffixed dispatch was issued through the action of instance s
LifecycleDispatched(s) ==
    \E i \in Calls :
        calls[i].inst = s /\ Range(Dispatched(calls[i])) \cap LifecycleTypes # {}

====
